---- MODULE Spec2Model ----
(***************************************************************************)
(* Model of django-userena's account lifecycle (signup validation,         *)
(* activation, e-mail change and confirmation) and of the profile          *)
(* visibility rule.                                                        *)
(*                                                                         *)
(* Strings whose letter case matters (usernames, e-mail addresses) are     *)
(* tuples of one-character strings, so that str.lower() and the ORM's      *)
(* __iexact lookup are computed character by character.  Keys are TLA+     *)
(* strings; time is counted in days.                                       *)
(***************************************************************************)
EXTENDS Integers, Sequences, FiniteSets, TLC

\* ---------------------------------------------------------------- bounds
MaxUsers == 2
MaxTime == 2
MaxKeys == 3
\* Signup requests in flight at once.
MaxRequests == 2

\* ------------------------------------------------------------- constants
\* userena_settings.USERENA_ACTIVATION_DAYS as configured (days).
USERENA_ACTIVATION_DAYS == 1
\* userena_settings.USERENA_ACTIVATED, the sentinel of a used activation key.
USERENA_ACTIVATED == "ALREADY_ACTIVATED"
\* max_length of SignupForm.username.
UsernameMaxLength == 30

\* ----------------------------------------------------------------- state
VARIABLES
    userena_settings,   \* the deployment's settings, fixed at start-up
    users,              \* auth.User rows, in creation order
    signups,            \* UserenaSignup rows, signups[i].user = users[i]
    now,                \* datetime.datetime.now(), in days
    nextKey,            \* source of fresh sha1 digests
    activated,          \* history: activation keys that were accepted
    superseded,         \* history: confirmation keys a later request overwrote
    sent,               \* recipients of the mails the last operation sent
    last,               \* the last operation, its inputs and its outcome
    profile,            \* one profile row (privacy)
    obj_perms,          \* guardian object permissions on that profile
    mugshot_settings,   \* the mugshot settings, fixed at start-up
    view,               \* the last profile call and its result
    requests,           \* signup requests in flight: position, cleaned data
    collation           \* how the store's unique index compares usernames

vars == <<userena_settings, users, signups, now, nextKey, activated,
          superseded, sent, last, profile, obj_perms, mugshot_settings, view,
          requests, collation>>
lifecycle == <<userena_settings, users, signups, now, nextKey, activated,
               superseded, sent, last>>
viewing == <<profile, obj_perms, mugshot_settings, view>>
racing == <<requests, collation>>

\* --------------------------------------------------------------- strings
\* unicode.lower() on one character.
LowerChar(c) ==
    CASE c = "A" -> "a"
      [] c = "B" -> "b"
      [] c = "C" -> "c"
      [] c = "M" -> "m"
      [] OTHER -> c

\* unicode.lower()
Lower(s) == [i \in DOMAIN s |-> LowerChar(s[i])]

\* The ORM's field__iexact comparison.
IExact(s, t) == Lower(s) = Lower(t)

\* Characters \w matches (ASCII letters, digits, underscore), as used here.
WordChars == {"a", "A", "b", "B", "c", "C", "m", "M", "e", "o", "1", "_"}

\* USERNAME_RE = r'^[\.\w]+$' together with max_length=30.
USERNAME_RE(s) ==
    /\ Len(s) >= 1
    /\ Len(s) <= UsernameMaxLength
    /\ \A i \in DOMAIN s : s[i] \in WordChars \cup {"."}

\* The usernames and addresses requests submit.
Usernames == {<<"b">>, <<"B">>, <<"M", "e">>, <<"b", "-">>}
Emails == {<<"b", "@">>, <<"B", "@">>, <<"c", "@">>}
\* The (password1, password2) pairs requests submit.
PasswordPairs == {<<"p", "p">>, <<"p", "q">>}

\* The configurations of USERENA_FORBIDDEN_USERNAMES explored.
ForbiddenLists == {{<<"m", "e">>}, {<<"M", "e">>}}

\* The empty string of a CharField left blank.
Blank == <<>>
NoKey == ""
None == "None"

\* ------------------------------------------------------------- settings
\* The userena settings module: every combination of the three settings
\* the modelled code reads.
Settings ==
    [USERENA_ACTIVATION_RESEND_ON_SIGNUP : BOOLEAN,
     USERENA_ACTIVATION_REQUIRED : BOOLEAN,
     USERENA_FORBIDDEN_USERNAMES : ForbiddenLists]

\* ------------------------------------------------------------ the rows
\* An auth.User row as create_user makes it.
NewUser(username, email, active) ==
    [username |-> username, email |-> email, is_active |-> active,
     date_joined |-> now]

\* A UserenaSignup row with the field defaults of the model class.
NewSignup(key) ==
    [activation_key |-> key,
     last_active |-> None,
     activation_notification_send |-> FALSE,
     email_unconfirmed |-> Blank,
     email_confirmation_key |-> NoKey,
     email_confirmation_key_created |-> None]

\* utils.generate_sha1: the hex digest of a random salt and the username;
\* the n-th digest drawn, distinct from every digest drawn before.
generate_sha1(n) == "h" \o ToString(n)

\* The digests drawn so far, a digest never issued, and the sentinel: the
\* key strings a request may carry.
KeyInputs ==
    {generate_sha1(n) : n \in 0..(nextKey - 1)} \cup {USERENA_ACTIVATED}

\* ------------------------------------------------------ models.py
\* activation_key_expired with the date comparison turned around.
activation_key_expired_reversed(i) ==
    LET expiration_date == users[i].date_joined + USERENA_ACTIVATION_DAYS
    IN  IF signups[i].activation_key = USERENA_ACTIVATED THEN TRUE
        ELSE IF now <= expiration_date THEN TRUE
        ELSE FALSE

\* activation_key_expired with a strict comparison: the key still counts
\* as valid at the instant it expires.
activation_key_expired_strict(i) ==
    LET expiration_date == users[i].date_joined + USERENA_ACTIVATION_DAYS
    IN  IF signups[i].activation_key = USERENA_ACTIVATED THEN TRUE
        ELSE IF now > expiration_date THEN TRUE
        ELSE FALSE

\* UserenaSignup.activation_key_expired
activation_key_expired(i) ==
    LET expiration_date == users[i].date_joined + USERENA_ACTIVATION_DAYS
    IN  IF signups[i].activation_key = USERENA_ACTIVATED THEN TRUE
        ELSE IF now >= expiration_date THEN TRUE
        ELSE FALSE

\* change_email that forgets to store the confirmation key.
change_email_no_key(signup, email, hash) ==
    [signup EXCEPT !.email_unconfirmed = email,
                   !.email_confirmation_key_created = now]

\* change_email that stores the new address in lower case.
change_email_lower(signup, email, hash) ==
    [signup EXCEPT !.email_unconfirmed = Lower(email),
                   !.email_confirmation_key = hash,
                   !.email_confirmation_key_created = now]

\* change_email that keeps the key of a request that is still pending.
change_email_keep_key(signup, email, hash) ==
    [signup EXCEPT !.email_unconfirmed = email,
                   !.email_confirmation_key =
                       IF signup.email_confirmation_key = NoKey
                       THEN hash ELSE signup.email_confirmation_key,
                   !.email_confirmation_key_created = now]

\* change_email that writes the digest to activation_key as well.
change_email_wrong_field(signup, email, hash) ==
    [signup EXCEPT !.email_unconfirmed = email,
                   !.activation_key = hash,
                   !.email_confirmation_key = hash,
                   !.email_confirmation_key_created = now]

\* UserenaSignup.change_email up to self.save(): the row after the change.
change_email(signup, email, hash) ==
    [signup EXCEPT !.email_unconfirmed = email,
                   !.email_confirmation_key = hash,
                   !.email_confirmation_key_created = now]

\* send_confirmation_email that mails the new address first.
send_confirmation_email_new_first(user, signup, fail) ==
    IF fail = 1 THEN <<>>
    ELSE IF fail = 2 THEN <<signup.email_unconfirmed>>
    ELSE <<signup.email_unconfirmed, user.email>>

\* UserenaSignup.send_confirmation_email: the recipients reached when the
\* fail-th send_mail call raises (0: none raises).  The old address is
\* mailed first, the new one second.
send_confirmation_email(user, signup, fail) ==
    IF fail = 1 THEN <<>>
    ELSE IF fail = 2 THEN <<user.email>>
    ELSE <<user.email, signup.email_unconfirmed>>

\* UserenaSignup.send_activation_email: one mail to the account's address.
send_activation_email(user, fail) ==
    IF fail = 1 THEN <<>> ELSE <<user.email>>

\* ------------------------------------------------------- forms.py
\* The rows User.objects.get(username__iexact=...) selects among.
UsersByUsername(username) ==
    {i \in DOMAIN users : IExact(users[i].username, username)}

\* The rows User.objects.get(email__iexact=...) selects among.
UsersByEmail(email) ==
    {i \in DOMAIN users : IExact(users[i].email, email)}

\* SignupForm.clean_username: the error raised ("ok": none) and the value
\* returned.
SignupForm_clean_username(username) ==
    LET found == UsersByUsername(username)
    IN  IF Cardinality(found) > 1
        THEN [error |-> "MultipleObjectsReturned", value |-> Blank]
        ELSE IF found # {}
        THEN [error |-> "UsernameTaken", value |-> Blank]
        ELSE IF Lower(username) \in userena_settings.USERENA_FORBIDDEN_USERNAMES
        THEN [error |-> "UsernameForbidden", value |-> Blank]
        ELSE [error |-> "ok", value |-> username]

\* clean_email that does not read the resend setting before asking the
\* signup row whether it has activated.
SignupForm_clean_email_no_setting(email) ==
    LET found == UsersByEmail(email)
    IN  IF found = {}
        THEN [error |-> "ok", value |-> email, signup |-> 0]
        ELSE IF Cardinality(found) > 1
        THEN [error |-> "MultipleObjectsReturned", value |-> Blank, signup |-> 0]
        ELSE [error |-> "AttributeError", value |-> Blank, signup |-> 0]

\* SignupForm.clean_email: the error raised, the value returned and the row
\* stored in self.signup (0: the attribute is not set).  UserenaSignup has
\* no has_activated method, so evaluating u.userena_signup.has_activated()
\* raises AttributeError; with the resend setting off the "and" never
\* evaluates it.
SignupForm_clean_email(email) ==
    LET found == UsersByEmail(email)
    IN  IF found = {}
        THEN [error |-> "ok", value |-> email, signup |-> 0]
        ELSE IF Cardinality(found) > 1
        THEN [error |-> "MultipleObjectsReturned", value |-> Blank, signup |-> 0]
        ELSE IF userena_settings.USERENA_ACTIVATION_RESEND_ON_SIGNUP
        THEN [error |-> "AttributeError", value |-> Blank, signup |-> 0]
        ELSE [error |-> "EmailAlreadyActivated", value |-> Blank, signup |-> 0]

\* SignupForm.clean: the two password fields must match.
SignupForm_clean(password1, password2) ==
    IF password1 # password2 THEN "PasswordMismatch" ELSE "ok"

\* Exceptions that are no ValidationError leave the form's cleaning.
IsException(error) == error \in {"AttributeError", "MultipleObjectsReturned"}

\* Form.full_clean on a SignupForm: each field's validators and clean_<field>
\* in declaration order, then clean(); a ValidationError is collected, any
\* other exception propagates at once.
SignupForm_full_clean(username, email, password1, password2) ==
    LET u == IF USERNAME_RE(username)
             THEN SignupForm_clean_username(username)
             ELSE [error |-> "invalid", value |-> Blank]
        e == SignupForm_clean_email(email)
        p == SignupForm_clean(password1, password2)
    IN  IF IsException(u.error)
        THEN [exception |-> u.error, username |-> u, email |-> [e EXCEPT !.error = "", !.signup = 0], clean |-> ""]
        ELSE IF IsException(e.error)
        THEN [exception |-> e.error, username |-> u, email |-> e, clean |-> ""]
        ELSE [exception |-> "", username |-> u, email |-> e, clean |-> p]

\* ChangeEmailForm.clean_email for the signed-in user uid.
ChangeEmailForm_clean_email(uid, email) ==
    IF Lower(email) = users[uid].email
    THEN "EmailUnchanged"
    ELSE IF {j \in DOMAIN users :
                /\ IExact(users[j].email, email)
                /\ ~IExact(users[j].email, users[uid].email)} # {}
    THEN "EmailInUse"
    ELSE "ok"

\* -------------------------------------------------------- operations
\* The record of an operation: which one, on which account, the key it
\* was given or has issued, and what came of it (for a signup, per field).
Outcome(op, uid, key, result) ==
    [op |-> op, uid |-> uid, key |-> key, result |-> result, username_error |-> "",
     email_error |-> "", form_error |-> "", signup |-> 0]

\* A signup request: SignupForm.is_valid(), then SignupForm.save(), which
\* calls UserenaManager.create_user(cleaned_data, not ACTIVATION_REQUIRED,
\* ACTIVATION_REQUIRED); create_user makes the User and its UserenaSignup
\* with a new activation key and, when asked, sends the activation mail.
Signup(username, email, password1, password2, fail) ==
    LET form == SignupForm_full_clean(username, email, password1, password2)
        required == userena_settings.USERENA_ACTIVATION_REQUIRED
        new_user == NewUser(form.username.value, form.email.value, ~required)
        tried == [Outcome("signup", 0, NoKey, "invalid")
                    EXCEPT !.username_error = form.username.error,
                           !.email_error = form.email.error,
                           !.form_error = form.clean,
                           !.signup = form.email.signup]
    IN  IF form.exception # ""
        THEN /\ fail = 0
             /\ last' = [tried EXCEPT !.result = form.exception]
             /\ sent' = <<>>
             /\ UNCHANGED <<userena_settings, users, signups, now, nextKey, activated, superseded>>
        ELSE IF form.username.error # "ok" \/ form.email.error # "ok" \/ form.clean # "ok"
        THEN /\ fail = 0
             /\ last' = tried
             /\ sent' = <<>>
             /\ UNCHANGED <<userena_settings, users, signups, now, nextKey, activated, superseded>>
        ELSE /\ Len(users) < MaxUsers
             /\ nextKey <= MaxKeys
             /\ required \/ fail = 0
             /\ users' = Append(users, new_user)
             /\ signups' = Append(signups, NewSignup(generate_sha1(nextKey)))
             /\ nextKey' = nextKey + 1
             /\ sent' = IF required THEN send_activation_email(new_user, fail) ELSE <<>>
             /\ last' = [tried EXCEPT !.uid = Len(users) + 1,
                                      !.key = generate_sha1(nextKey),
                                      !.result = IF fail = 0 THEN "ok" ELSE "MailDeliveryFailed"]
             /\ UNCHANGED <<userena_settings, now, activated, superseded>>

\* UserenaManager.activate_user: the row whose activation_key is the key; no
\* row (the sentinel is no valid key to look up) is InvalidKey, an expired
\* key ActivationExpired; else the key becomes the sentinel and the user
\* active.
Activate(key) ==
    LET found == {i \in DOMAIN signups : signups[i].activation_key = key}
    IN  /\ sent' = <<>>
        /\ IF key = USERENA_ACTIVATED \/ found = {}
           THEN /\ last' = Outcome("activate", 0, key, "InvalidKey")
                /\ UNCHANGED <<userena_settings, users, signups, now, nextKey, activated, superseded>>
           ELSE LET i == CHOOSE i \in found : TRUE
                IN  IF activation_key_expired(i)
                    THEN /\ last' = Outcome("activate", i, key, "ActivationExpired")
                         /\ UNCHANGED <<userena_settings, users, signups, now, nextKey, activated, superseded>>
                    ELSE /\ signups' = [signups EXCEPT ![i].activation_key = USERENA_ACTIVATED]
                         /\ users' = [users EXCEPT ![i].is_active = TRUE]
                         /\ activated' = activated \cup {key}
                         /\ last' = Outcome("activate", i, key, "ok")
                         /\ UNCHANGED <<userena_settings, now, nextKey, superseded>>

\* An e-mail change request of the signed-in user uid: ChangeEmailForm's
\* validation, then ChangeEmailForm.save(), which calls
\* UserenaSignup.change_email: the row is saved, then the two mails go out.
ChangeEmail(uid, email, fail) ==
    /\ uid \in DOMAIN users
    /\ users[uid].is_active
    /\ LET error == ChangeEmailForm_clean_email(uid, email)
           changed == change_email(signups[uid], email, generate_sha1(nextKey))
       IN  IF error # "ok"
           THEN /\ fail = 0
                /\ last' = Outcome("change_email", uid, NoKey, error)
                /\ sent' = <<>>
                /\ UNCHANGED <<userena_settings, users, signups, now, nextKey, activated, superseded>>
           ELSE /\ nextKey <= MaxKeys
                /\ signups' = [signups EXCEPT ![uid] = changed]
                /\ nextKey' = nextKey + 1
                /\ sent' = send_confirmation_email(users[uid], changed, fail)
                /\ last' = Outcome("change_email", uid,
                                   changed.email_confirmation_key,
                                   IF fail = 0 THEN "ok" ELSE "MailDeliveryFailed")
                /\ superseded' = superseded \cup
                       ({signups[uid].email_confirmation_key} \ {NoKey})
                /\ UNCHANGED <<userena_settings, users, now, activated>>

\* UserenaManager.confirm_email: the row whose email_confirmation_key is the
\* key; its user's email becomes email_unconfirmed, and email_unconfirmed
\* and email_confirmation_key are cleared.
ConfirmEmail(key) ==
    LET found == {i \in DOMAIN signups : signups[i].email_confirmation_key = key}
    IN  /\ sent' = <<>>
        /\ IF found = {}
           THEN /\ last' = Outcome("confirm_email", 0, key, "InvalidConfirmationKey")
                /\ UNCHANGED <<userena_settings, users, signups, now, nextKey, activated, superseded>>
           ELSE LET i == CHOOSE i \in found : TRUE
                IN  /\ users' = [users EXCEPT ![i].email = signups[i].email_unconfirmed]
                    /\ signups' = [signups EXCEPT ![i].email_unconfirmed = Blank,
                                                  ![i].email_confirmation_key = NoKey]
                    /\ last' = Outcome("confirm_email", i, key, "ok")
                    /\ UNCHANGED <<userena_settings, now, nextKey, activated, superseded>>

\* A day passes.
Tick ==
    /\ now < MaxTime
    /\ now' = now + 1
    /\ sent' = <<>>
    /\ last' = Outcome("tick", 0, NoKey, "")
    /\ UNCHANGED <<userena_settings, users, signups, nextKey, activated, superseded>>

\* ------------------------------------------------- models_base.py
\* PRIVACY_CHOICES
PRIVACY_CHOICES == {"open", "registered", "closed"}

\* The permissions of the profile model: PROFILE_PERMISSIONS and the
\* change permission every model has.
ProfilePermissions == {"view_profile", "change_profile"}

\* Who asks to see the profile: request.user is an AnonymousUser or a User
\* (1 is the profile's owner, 3 a superuser).
Viewers ==
    {[id |-> 0, class |-> "AnonymousUser", is_superuser |-> FALSE],
     [id |-> 1, class |-> "User", is_superuser |-> FALSE],
     [id |-> 2, class |-> "User", is_superuser |-> FALSE],
     [id |-> 3, class |-> "User", is_superuser |-> TRUE]}

\* isinstance(user, User)
IsUser(user) == user.class = "User"

\* guardian.shortcuts.get_perms(user, profile): the object permissions
\* granted to the user, every permission for a superuser.
get_perms(user) ==
    IF user.is_superuser THEN ProfilePermissions ELSE obj_perms[user.id]

\* can_view_profile without the isinstance test on the viewer.
can_view_profile_no_isinstance(user) ==
    IF profile.privacy = "open" THEN TRUE
    ELSE IF profile.privacy = "registered" THEN TRUE
    ELSE IF "view_profile" \in get_perms(user) THEN TRUE
    ELSE FALSE

\* UserenaBaseProfile.can_view_profile
can_view_profile(user) ==
    IF profile.privacy = "open" THEN TRUE
    ELSE IF profile.privacy = "registered" /\ IsUser(user) THEN TRUE
    ELSE IF "view_profile" \in get_perms(user) THEN TRUE
    ELSE FALSE

\* A profile page request: the view asks can_view_profile.
CanViewProfile(user) ==
    /\ view' = [op |-> "can_view_profile", user |-> user.id,
                result |-> can_view_profile(user)]
    /\ UNCHANGED <<profile, obj_perms, mugshot_settings>>

\* EditProfileForm.save: the owner stores a privacy choice.
EditProfile(privacy) ==
    /\ profile' = [profile EXCEPT !.privacy = privacy]
    /\ view' = [op |-> "edit_profile", user |-> 1, result |-> TRUE]
    /\ UNCHANGED <<obj_perms, mugshot_settings>>

\* guardian.shortcuts.assign(perm, user, profile)
Assign(user, perm) ==
    /\ ~user.is_superuser
    /\ obj_perms' = [obj_perms EXCEPT ![user.id] = @ \cup {perm}]
    /\ view' = [op |-> "assign", user |-> user.id, result |-> TRUE]
    /\ UNCHANGED <<profile, mugshot_settings>>

\* ------------------------------------------- models_base.py, mugshot
\* userena_settings.USERENA_MUGSHOT_SIZE as configured (pixels).
USERENA_MUGSHOT_SIZE == 80

\* URLs and image identifiers are sequences of tokens.  The values of
\* USERENA_MUGSHOT_DEFAULT explored: Gravatar's keywords and custom URLs.
GravatarKeywords ==
    {<<"404">>, <<"mm">>, <<"identicon">>, <<"monsterid">>, <<"wavatar">>}
MugshotDefaults == GravatarKeywords \cup {<<"http:", "d.png">>, <<"Identicon">>}

\* Every configuration of the two mugshot settings.
MugshotSettings ==
    [USERENA_MUGSHOT_GRAVATAR : BOOLEAN,
     USERENA_MUGSHOT_DEFAULT : MugshotDefaults]

\* The files the mugshot field may hold (Blank: none uploaded).
Mugshots == {Blank, <<"m1.png">>, <<"m2.png">>}

\* Python's None as a result among URLs.
NoAvatar == <<"None">>

\* self.mugshot.url: the storage's URL of the uploaded file.
mugshot_url(mugshot) == <<"/media/">> \o mugshot

\* utils.get_gravatar(email, size, default): the Gravatar URL keyed by the
\* hash of the lower-cased address, with the size and the default image.
get_gravatar(email, size, default) ==
    <<"gravatar.com/avatar/">> \o Lower(email) \o <<"?s=", ToString(size), "&d=">> \o default

\* get_mugshot_url that asks for the Gravatar before the uploaded image.
get_mugshot_url_gravatar_first ==
    IF mugshot_settings.USERENA_MUGSHOT_GRAVATAR
    THEN get_gravatar(profile.email, USERENA_MUGSHOT_SIZE,
                      mugshot_settings.USERENA_MUGSHOT_DEFAULT)
    ELSE IF profile.mugshot # Blank
    THEN mugshot_url(profile.mugshot)
    ELSE IF mugshot_settings.USERENA_MUGSHOT_DEFAULT \notin GravatarKeywords
    THEN mugshot_settings.USERENA_MUGSHOT_DEFAULT
    ELSE NoAvatar

\* UserenaMugshotBaseProfile.get_mugshot_url
get_mugshot_url ==
    IF profile.mugshot # Blank
    THEN mugshot_url(profile.mugshot)
    ELSE IF mugshot_settings.USERENA_MUGSHOT_GRAVATAR
    THEN get_gravatar(profile.email, USERENA_MUGSHOT_SIZE,
                      mugshot_settings.USERENA_MUGSHOT_DEFAULT)
    ELSE IF mugshot_settings.USERENA_MUGSHOT_DEFAULT
                \notin {<<"404">>, <<"mm">>, <<"identicon">>, <<"monsterid">>, <<"wavatar">>}
    THEN mugshot_settings.USERENA_MUGSHOT_DEFAULT
    ELSE NoAvatar

\* A profile display asks for the avatar.
GetMugshotUrl ==
    /\ view' = [op |-> "get_mugshot_url", user |-> 1, result |-> get_mugshot_url]
    /\ UNCHANGED <<profile, obj_perms, mugshot_settings>>

\* EditProfileForm.save with an uploaded, replaced or cleared mugshot.
EditMugshot(mugshot) ==
    /\ profile' = [profile EXCEPT !.mugshot = mugshot]
    /\ view' = [op |-> "edit_mugshot", user |-> 1, result |-> TRUE]
    /\ UNCHANGED <<obj_perms, mugshot_settings>>

\* ---------------------------------------------------- specification
\* The settings of the lifecycle specification: resend-on-signup off and
\* a lower-case forbidden list; activation required or not.
LifecycleSettings ==
    {x \in Settings :
        /\ ~x.USERENA_ACTIVATION_RESEND_ON_SIGNUP
        /\ x.USERENA_FORBIDDEN_USERNAMES = {<<"m", "e">>}}

\* The usernames and passwords its signup requests submit.
LifecycleUsernames == {<<"b">>, <<"B">>, <<"c">>}
LifecyclePasswords == {<<"p", "p">>}

\* A profile as create_user leaves it: the default privacy, and the owner
\* granted the profile's permissions.
ViewInit ==
    /\ profile = [privacy |-> "registered", mugshot |-> Blank, email |-> <<"B", "@">>]
    /\ obj_perms = [id \in 0..2 |-> IF id = 1 THEN ProfilePermissions ELSE {}]
    /\ view = [op |-> "init", user |-> 0, result |-> TRUE]

\* ------------------------------------------- signup requests in flight
Requests == 1..MaxRequests

\* The comparisons a database's unique index may use: by the exact string
\* (PostgreSQL, SQLite) or without regard to letter case (MySQL's default).
Collations == {"exact", "iexact"}

\* A request that has not been submitted.
NewRequest == [pc |-> "new", username |-> Blank, email |-> Blank]

\* The unique index on auth.User.username refuses the insert.
UsernameIndexRefuses(username) ==
    \E i \in DOMAIN users :
        IF collation = "iexact"
        THEN IExact(users[i].username, username)
        ELSE users[i].username = username

\* The first half of a signup request r: SignupForm.is_valid() against the
\* rows committed so far; the cleaned data stay with the request.
ValidateSignup(r, username, email, password1, password2) ==
    LET form == SignupForm_full_clean(username, email, password1, password2)
        tried == [Outcome("validate", 0, NoKey, "invalid")
                    EXCEPT !.username_error = form.username.error,
                           !.email_error = form.email.error,
                           !.form_error = form.clean,
                           !.signup = form.email.signup]
        valid == /\ form.exception = ""
                 /\ form.username.error = "ok"
                 /\ form.email.error = "ok"
                 /\ form.clean = "ok"
    IN  /\ requests[r].pc = "new"
        /\ requests' = [requests EXCEPT ![r] =
                IF valid
                THEN [pc |-> "valid", username |-> form.username.value,
                      email |-> form.email.value]
                ELSE [NewRequest EXCEPT !.pc = "rejected"]]
        /\ last' = IF form.exception # ""
                   THEN [tried EXCEPT !.result = form.exception]
                   ELSE IF valid THEN [tried EXCEPT !.result = "ok"]
                   ELSE tried
        /\ sent' = <<>>
        /\ UNCHANGED <<userena_settings, users, signups, now, nextKey,
                       activated, superseded, collation>>

\* The second half of request r: SignupForm.save() with the data cleaned
\* earlier; create_user inserts the User, which the unique index on
\* username may refuse (IntegrityError), then the UserenaSignup, and sends
\* the activation mail when activation is required.
SaveSignup(r, fail) ==
    LET required == userena_settings.USERENA_ACTIVATION_REQUIRED
        new_user == NewUser(requests[r].username, requests[r].email, ~required)
    IN  /\ requests[r].pc = "valid"
        /\ IF UsernameIndexRefuses(requests[r].username)
           THEN /\ fail = 0
                /\ requests' = [requests EXCEPT ![r].pc = "IntegrityError"]
                /\ last' = Outcome("save", 0, NoKey, "IntegrityError")
                /\ sent' = <<>>
                /\ UNCHANGED <<userena_settings, users, signups, now, nextKey,
                               activated, superseded, collation>>
           ELSE /\ Len(users) < MaxUsers
                /\ nextKey <= MaxKeys
                /\ required \/ fail = 0
                /\ users' = Append(users, new_user)
                /\ signups' = Append(signups, NewSignup(generate_sha1(nextKey)))
                /\ nextKey' = nextKey + 1
                /\ requests' = [requests EXCEPT ![r].pc = "created"]
                /\ sent' = IF required THEN send_activation_email(new_user, fail) ELSE <<>>
                /\ last' = Outcome("save", Len(users) + 1, generate_sha1(nextKey),
                                   IF fail = 0 THEN "ok" ELSE "MailDeliveryFailed")
                /\ UNCHANGED <<userena_settings, now, activated, superseded,
                               collation>>

\* The mugshot settings of every specification but the avatar's.
DefaultMugshotSettings ==
    [USERENA_MUGSHOT_GRAVATAR |-> TRUE, USERENA_MUGSHOT_DEFAULT |-> <<"identicon">>]

Tables ==
    /\ users = <<>>
    /\ signups = <<>>
    /\ now = 0
    /\ nextKey = 1
    /\ activated = {}
    /\ superseded = {}
    /\ sent = <<>>
    /\ last = Outcome("init", 0, NoKey, "")
    /\ requests = [r \in Requests |-> NewRequest]
    /\ ViewInit

Start ==
    /\ Tables
    /\ mugshot_settings = DefaultMugshotSettings
    /\ collation = "exact"

SignupStep(names, emails, pairs) ==
    \E fail \in 0..1, passwords \in pairs,
       username \in names, email \in emails :
        Signup(username, email, passwords[1], passwords[2], fail)

ActivateStep == \E key \in KeyInputs : Activate(key)

ChangeEmailStep(emails) ==
    \E uid \in DOMAIN users, fail \in 0..2, email \in emails :
        ChangeEmail(uid, email, fail)

ConfirmEmailStep == \E key \in KeyInputs : ConfirmEmail(key)

\* The account lifecycle within one day: signup, activation, e-mail change
\* and confirmation, with addresses that differ in letter case.
Init == userena_settings \in LifecycleSettings /\ Start

Next ==
    \/ SignupStep(LifecycleUsernames, Emails, LifecyclePasswords) /\ UNCHANGED <<viewing, racing>>
    \/ ActivateStep /\ UNCHANGED <<viewing, racing>>
    \/ ChangeEmailStep(Emails) /\ UNCHANGED <<viewing, racing>>
    \/ ConfirmEmailStep /\ UNCHANGED <<viewing, racing>>

Spec == Init /\ [][Next]_vars

\* The account lifecycle over the days: the same operations and the clock.
TimeEmails == {<<"b", "@">>, <<"c", "@">>}
TimeUsernames == {<<"b">>, <<"c">>}

NextTime ==
    \/ SignupStep(TimeUsernames, TimeEmails, LifecyclePasswords) /\ UNCHANGED <<viewing, racing>>
    \/ ActivateStep /\ UNCHANGED <<viewing, racing>>
    \/ ChangeEmailStep(TimeEmails) /\ UNCHANGED <<viewing, racing>>
    \/ ConfirmEmailStep /\ UNCHANGED <<viewing, racing>>
    \/ Tick /\ UNCHANGED <<viewing, racing>>

SpecTime == Init /\ [][NextTime]_vars

\* Signup validation under every configuration of the settings.
InitSignup == userena_settings \in Settings /\ Start

NextSignup ==
    \/ SignupStep(Usernames, Emails, PasswordPairs) /\ UNCHANGED <<viewing, racing>>
    \/ ActivateStep /\ UNCHANGED <<viewing, racing>>

SpecSignup == InitSignup /\ [][NextSignup]_vars

\* Profile display: privacy edits, permission grants and view requests.
NextView ==
    \/ \E user \in Viewers : CanViewProfile(user) /\ UNCHANGED <<lifecycle, racing>>
    \/ \E privacy \in PRIVACY_CHOICES : EditProfile(privacy) /\ UNCHANGED <<lifecycle, racing>>
    \/ \E user \in Viewers, perm \in ProfilePermissions :
          Assign(user, perm) /\ UNCHANGED <<lifecycle, racing>>

SpecView == Init /\ [][NextView]_vars

\* Avatar resolution under every configuration of the mugshot settings.
InitAvatar ==
    /\ userena_settings \in LifecycleSettings
    /\ Tables
    /\ mugshot_settings \in MugshotSettings
    /\ collation = "exact"

NextAvatar ==
    \/ GetMugshotUrl /\ UNCHANGED <<lifecycle, racing>>
    \/ \E mugshot \in Mugshots : EditMugshot(mugshot) /\ UNCHANGED <<lifecycle, racing>>
    \/ \E privacy \in PRIVACY_CHOICES : EditProfile(privacy) /\ UNCHANGED <<lifecycle, racing>>

SpecAvatar == InitAvatar /\ [][NextAvatar]_vars

\* Signup requests whose validation and creation interleave, over a store
\* with either kind of unique index.
InitRace ==
    /\ userena_settings \in LifecycleSettings
    /\ Tables
    /\ mugshot_settings = DefaultMugshotSettings
    /\ collation \in Collations

ValidateSignupStep ==
    \E r \in Requests, passwords \in LifecyclePasswords,
       username \in LifecycleUsernames, email \in Emails :
        ValidateSignup(r, username, email, passwords[1], passwords[2])

SaveSignupStep == \E r \in Requests, fail \in 0..1 : SaveSignup(r, fail)

NextRace ==
    \/ ValidateSignupStep /\ UNCHANGED viewing
    \/ SaveSignupStep /\ UNCHANGED viewing

SpecRace == InitRace /\ [][NextRace]_vars

\* ------------------------------------------------------------ claims
\* Whether the account of row i has gone through activation.
HasActivated(i) == signups[i].activation_key = USERENA_ACTIVATED

\* The instant the activation key of row i expires.
ExpiresAt(i) == users[i].date_joined + USERENA_ACTIVATION_DAYS

\* Every key a row holds.
KeysHeld ==
    {signups[i].activation_key : i \in DOMAIN signups}
        \cup {signups[i].email_confirmation_key : i \in DOMAIN signups}

\* C1: activation is exactly-once per key.  Activating with the fresh,
\* unexpired key of an account makes the account active and its key the
\* sentinel; every later activation with a key that was once accepted fails
\* with InvalidKey and changes no row.
ActivationExactlyOnce ==
    [][\A key \in KeyInputs :
          (last'.op = "activate" /\ Activate(key)) =>
            /\ \A i \in DOMAIN signups :
                  (/\ signups[i].activation_key = key
                   /\ key # USERENA_ACTIVATED
                   /\ now < ExpiresAt(i))
                  => /\ last'.result = "ok"
                     /\ users'[i].is_active
                     /\ signups'[i].activation_key = USERENA_ACTIVATED
            /\ key \in activated
                  => /\ last'.result = "InvalidKey"
                     /\ users' = users
                     /\ signups' = signups]_vars

\* C1 witness: a key that was accepted before has just been refused.
ReactivationRefused ==
    /\ last.op = "activate"
    /\ last.key \in activated
    /\ last.result = "InvalidKey"
    /\ \E i \in DOMAIN signups : HasActivated(i) /\ users[i].is_active

\* C2: a non-sentinel key presented at or after date_joined +
\* activation_days (the boundary included) fails with ActivationExpired and
\* leaves account and key as they were; strictly before that instant the
\* key is not expired and the activation goes through.
ExpiredKeyRefused ==
    [][\A key \in KeyInputs, i \in DOMAIN signups :
          (/\ last'.op = "activate"
           /\ Activate(key)
           /\ key # USERENA_ACTIVATED
           /\ signups[i].activation_key = key)
          => IF ExpiresAt(i) <= now
             THEN /\ last'.result = "ActivationExpired"
                  /\ users'[i] = users[i]
                  /\ signups'[i] = signups[i]
             ELSE /\ ~activation_key_expired(i)
                  /\ last'.result = "ok"]_vars

\* C2 witness: a pending account refused at the very instant of expiry.
RefusedAtTheBoundary ==
    /\ last.op = "activate"
    /\ last.result = "ActivationExpired"
    /\ now = ExpiresAt(last.uid)
    /\ ~users[last.uid].is_active
    /\ signups[last.uid].activation_key = last.key

\* C3: in every reachable state each signup row has a confirmation key
\* exactly when it has an unconfirmed address.
KeyIffUnconfirmed ==
    \A i \in DOMAIN signups :
        (signups[i].email_confirmation_key # NoKey)
            <=> (signups[i].email_unconfirmed # Blank)

\* C3 witness: a change was requested and the row holds both fields.
ChangePending ==
    /\ last.op = "change_email"
    /\ last.result = "ok"
    /\ signups[last.uid].email_confirmation_key # NoKey
    /\ signups[last.uid].email_unconfirmed # Blank

\* C4: the e-mail change round trip.  An accepted request stores the new
\* address as given and a fresh confirmation key while the primary address
\* stays the old one; confirming with a row's key makes its unconfirmed
\* address the primary one and clears both fields.
EmailChangeRoundTrip ==
    [][/\ \A uid \in DOMAIN users, email \in Emails, fail \in 0..2 :
            (/\ last'.op = "change_email"
             /\ last'.result \in {"ok", "MailDeliveryFailed"}
             /\ ChangeEmail(uid, email, fail))
            => /\ signups'[uid].email_unconfirmed = email
               /\ signups'[uid].email_confirmation_key = last'.key
               /\ last'.key \notin KeysHeld \cup {NoKey, USERENA_ACTIVATED}
               /\ users'[uid].email = users[uid].email
       /\ \A key \in KeyInputs, i \in DOMAIN signups :
            (/\ last'.op = "confirm_email"
             /\ signups[i].email_confirmation_key = key
             /\ ConfirmEmail(key))
            => /\ last'.result = "ok"
               /\ users'[i].email = signups[i].email_unconfirmed
               /\ signups'[i].email_unconfirmed = Blank
               /\ signups'[i].email_confirmation_key = NoKey]_vars

\* C4 witness: a round trip completed, the primary address now one that
\* differs in letter case from its lower-case form.
RoundTripDone ==
    /\ last.op = "confirm_email"
    /\ last.result = "ok"
    /\ users[last.uid].email = <<"B", "@">>
    /\ signups[last.uid].email_unconfirmed = Blank
    /\ signups[last.uid].email_confirmation_key = NoKey

\* C5: e-mail change validation rejects with EmailUnchanged every address
\* equal to the account's current one whatever the letter case of either,
\* and with EmailInUse every address equal, case-insensitively, to that of
\* another account; neither stores anything.
SameOrUsedEmailRejected ==
    [][\A uid \in DOMAIN users, email \in Emails, fail \in 0..2 :
          (last'.op = "change_email" /\ ChangeEmail(uid, email, fail)) =>
            /\ IExact(email, users[uid].email)
                  => last'.result = "EmailUnchanged" /\ signups' = signups
            /\ (/\ ~IExact(email, users[uid].email)
                /\ \E j \in DOMAIN users \ {uid} : IExact(users[j].email, email))
                  => last'.result = "EmailInUse" /\ signups' = signups]_vars

\* C6: with resend-on-duplicate-signup on, a signup whose address matches
\* an unactivated account fails with EmailPendingActivation, flags that
\* account's signup row and creates nothing; one matching an activated
\* account fails with EmailAlreadyActivated and flags nothing.
ResendOnDuplicateSignup ==
    [][\A username \in Usernames, email \in Emails,
         passwords \in PasswordPairs, i \in DOMAIN users :
          (/\ last'.op = "signup"
           /\ userena_settings.USERENA_ACTIVATION_RESEND_ON_SIGNUP
           /\ IExact(users[i].email, email)
           /\ Signup(username, email, passwords[1], passwords[2], 0))
          => /\ users' = users
             /\ IF HasActivated(i)
                THEN /\ last'.email_error = "EmailAlreadyActivated"
                     /\ last'.signup = 0
                ELSE /\ last'.email_error = "EmailPendingActivation"
                     /\ last'.signup = i]_vars

\* C7 as stated: with resend-on-duplicate-signup off, a signup whose
\* address matches an account fails with EmailAlreadyActivated for an
\* activated account and with the pending-activation failure for an
\* unactivated one, and never flags a signup row.
DisabledResendKeepsDistinction ==
    [][\A username \in LifecycleUsernames, email \in Emails,
         passwords \in LifecyclePasswords, i \in DOMAIN users :
          (/\ last'.op = "signup"
           /\ ~userena_settings.USERENA_ACTIVATION_RESEND_ON_SIGNUP
           /\ UsersByEmail(email) = {i}
           /\ Signup(username, email, passwords[1], passwords[2], 0))
          => /\ last'.signup = 0
             /\ last'.email_error =
                    IF HasActivated(i) THEN "EmailAlreadyActivated"
                    ELSE "EmailPendingActivation"]_vars

\* C7 as amended: with resend-on-duplicate-signup off, a signup whose
\* address matches an account fails with EmailAlreadyActivated whether or
\* not that account is activated (the lookup itself fails when several
\* accounts match), creates nothing and never flags a signup row.
DisabledResendOneFailure ==
    [][\A username \in LifecycleUsernames, email \in Emails,
         passwords \in LifecyclePasswords :
          (/\ last'.op = "signup"
           /\ ~userena_settings.USERENA_ACTIVATION_RESEND_ON_SIGNUP
           /\ UsersByEmail(email) # {}
           /\ Signup(username, email, passwords[1], passwords[2], 0))
          => /\ last'.signup = 0
             /\ users' = users
             /\ signups' = signups
             /\ IF Cardinality(UsersByEmail(email)) = 1
                THEN last'.email_error = "EmailAlreadyActivated"
                ELSE last'.result = "MultipleObjectsReturned"]_vars

\* C7 witness: the address of an account that never activated was refused
\* as belonging to an activated one.
UnactivatedRefusedAsActivated ==
    /\ ~userena_settings.USERENA_ACTIVATION_RESEND_ON_SIGNUP
    /\ last.op = "signup"
    /\ last.email_error = "EmailAlreadyActivated"
    /\ users # <<>>
    /\ \A i \in DOMAIN signups : ~HasActivated(i) /\ ~users[i].is_active

\* C8: for a pattern-valid username, validation fails with UsernameTaken
\* when an account has that username up to letter case, else with
\* UsernameForbidden when the forbidden list has it up to letter case, and
\* else succeeds, the account being created under the username as given.
UsernameValidation ==
    [][\A username \in Usernames, email \in Emails,
         passwords \in PasswordPairs, fail \in 0..1 :
          (/\ last'.op = "signup"
           /\ USERNAME_RE(username)
           /\ Signup(username, email, passwords[1], passwords[2], fail))
          => /\ last'.username_error =
                    IF \E i \in DOMAIN users : IExact(users[i].username, username)
                    THEN "UsernameTaken"
                    ELSE IF \E name \in userena_settings.USERENA_FORBIDDEN_USERNAMES :
                                IExact(name, username)
                    THEN "UsernameForbidden"
                    ELSE "ok"
             /\ Len(users') > Len(users)
                    => users'[Len(users')].username = username]_vars

\* C9: can_view_profile is true exactly when the profile is open, or it is
\* registered and the viewer a signed-in user, or the viewer is granted
\* view_profile on it; the call changes neither profile nor permissions.
CanViewRule ==
    [][\A user \in Viewers :
          (view'.op = "can_view_profile" /\ CanViewProfile(user)) =>
            /\ view'.result <=>
                  \/ profile.privacy = "open"
                  \/ profile.privacy = "registered" /\ user.class # "AnonymousUser"
                  \/ "view_profile" \in get_perms(user)
            /\ profile' = profile
            /\ obj_perms' = obj_perms]_vars

\* C9 witness: a registered profile was just refused to the anonymous
\* viewer, who holds no grant.
RegisteredHiddenFromAnonymous ==
    /\ view.op = "can_view_profile"
    /\ view.user = 0
    /\ profile.privacy = "registered"
    /\ obj_perms[0] = {}
    /\ view.result = FALSE

\* C10: a row whose activation_key is the sentinel keeps the sentinel, and
\* its account stays active, through every operation and the passing of
\* time.
SentinelIsPermanent ==
    [][\A i \in DOMAIN signups :
          HasActivated(i)
          => /\ signups'[i].activation_key = USERENA_ACTIVATED
             /\ users'[i].is_active]_vars

\* C10 witness: an activated account, past its activation window, has had
\* an e-mail change confirmed.
ActivatedThroughEmailChange ==
    /\ last.op = "confirm_email"
    /\ last.result = "ok"
    /\ HasActivated(last.uid)
    /\ users[last.uid].is_active
    /\ now > ExpiresAt(last.uid)

\* C11: the avatar follows a fixed fallback order whatever the inputs: the
\* uploaded image's URL whether or not Gravatar is on; else the Gravatar
\* URL when Gravatar is on; else the configured default as it is when it is
\* none of 404, mm, identicon, monsterid, wavatar; else no avatar.
AvatarFallbackOrder ==
    [][(view'.op = "get_mugshot_url" /\ GetMugshotUrl) =>
          /\ profile.mugshot # Blank
                => view'.result = <<"/media/">> \o profile.mugshot
          /\ (profile.mugshot = Blank /\ mugshot_settings.USERENA_MUGSHOT_GRAVATAR)
                => view'.result = get_gravatar(profile.email, USERENA_MUGSHOT_SIZE,
                                               mugshot_settings.USERENA_MUGSHOT_DEFAULT)
          /\ (/\ profile.mugshot = Blank
              /\ ~mugshot_settings.USERENA_MUGSHOT_GRAVATAR
              /\ mugshot_settings.USERENA_MUGSHOT_DEFAULT \notin GravatarKeywords)
                => view'.result = mugshot_settings.USERENA_MUGSHOT_DEFAULT
          /\ (/\ profile.mugshot = Blank
              /\ ~mugshot_settings.USERENA_MUGSHOT_GRAVATAR
              /\ mugshot_settings.USERENA_MUGSHOT_DEFAULT \in GravatarKeywords)
                => view'.result = NoAvatar]_vars

\* C11 witness: with Gravatar on, the uploaded image's URL was returned.
UploadedImageBeatsGravatar ==
    /\ view.op = "get_mugshot_url"
    /\ mugshot_settings.USERENA_MUGSHOT_GRAVATAR
    /\ profile.mugshot = <<"m2.png">>
    /\ view.result = <<"/media/", "m2.png">>

\* C12: an accepted e-mail change request saves the row before it mails,
\* mails the current address before the new one, and lets a failure of
\* either send reach the caller without rolling back: the row keeps the
\* requested address and its key, and the primary address is unchanged.
ChangeSavedBeforeMail ==
    [][\A uid \in DOMAIN users, email \in Emails, fail \in 0..2 :
          (/\ last'.op = "change_email"
           /\ last'.result \in {"ok", "MailDeliveryFailed"}
           /\ ChangeEmail(uid, email, fail))
          => /\ signups'[uid].email_unconfirmed = email
             /\ signups'[uid].email_confirmation_key = last'.key
             /\ last'.key # NoKey
             /\ users' = users
             /\ sent' \in {<<>>, <<users[uid].email>>, <<users[uid].email, email>>}
             /\ (last'.result = "MailDeliveryFailed") <=> (Len(sent') < 2)
             /\ (last'.result = "MailDeliveryFailed") <=> (fail # 0)]_vars

\* C12 witness: the mail to the new address failed after the one to the
\* current address went out, and the pending change is on the row.
SecondMailFailed ==
    /\ last.op = "change_email"
    /\ last.result = "MailDeliveryFailed"
    /\ sent = <<users[last.uid].email>>
    /\ signups[last.uid].email_unconfirmed \notin {Blank, users[last.uid].email}
    /\ signups[last.uid].email_confirmation_key = last.key

\* C13: after signups, e-mail change requests and confirmations that each
\* passed validation, no two accounts have primary addresses that are equal
\* without regard to letter case.
PrimaryEmailsUnique ==
    \A i, j \in DOMAIN users :
        IExact(users[i].email, users[j].email) => i = j

\* C14: an account has one live confirmation key. A change request while
\* another is pending overwrites the pending key and address; the
\* overwritten key is held by no row from then on, confirming with it is
\* InvalidConfirmationKey and changes no row, and a confirmation that
\* succeeds makes the address of the latest request the primary one.
OneLiveConfirmationKey ==
    [][/\ \A uid \in DOMAIN users, email \in Emails, fail \in 0..2 :
            (/\ last'.op = "change_email"
             /\ last'.result \in {"ok", "MailDeliveryFailed"}
             /\ signups[uid].email_confirmation_key # NoKey
             /\ ChangeEmail(uid, email, fail))
            => /\ signups[uid].email_confirmation_key \in superseded'
               /\ signups'[uid].email_confirmation_key
                      # signups[uid].email_confirmation_key
               /\ signups'[uid].email_unconfirmed = email
       /\ \A key \in superseded' :
            \A i \in DOMAIN signups' : signups'[i].email_confirmation_key # key
       /\ \A key \in KeyInputs :
            (last'.op = "confirm_email" /\ ConfirmEmail(key))
            => IF key \in superseded
               THEN /\ last'.result = "InvalidConfirmationKey"
                    /\ users' = users
                    /\ signups' = signups
               ELSE last'.result = "ok"
                    => /\ signups[last'.uid].email_confirmation_key = key
                       /\ users'[last'.uid].email
                              = signups[last'.uid].email_unconfirmed
      ]_vars

\* C14 witness: the first of two keys issued to an account was refused
\* while the second is live with a different address pending.
FirstKeyRefused ==
    /\ last.op = "confirm_email"
    /\ last.result = "InvalidConfirmationKey"
    /\ last.key \in superseded
    /\ \E i \in DOMAIN signups :
          /\ signups[i].email_confirmation_key \notin {NoKey, last.key}
          /\ signups[i].email_unconfirmed # Blank

\* C15: however the validate and create steps of two signup requests
\* interleave, no two accounts are created whose usernames are equal
\* without regard to letter case.
UsernamesUniqueUnderRace ==
    \A i, j \in DOMAIN users :
        IExact(users[i].username, users[j].username) => i = j
====
